---- MODULE Spec2Model ----
(***************************************************************************)
(* The dating application of src/theDatingApp.ts: User, Profile, Message,  *)
(* MatchMaker and the DatingService facade over three in-memory arrays.    *)
(* Single-threaded and synchronous: every method call is one atomic step.  *)
(* `last` records the most recent call (method, arguments, returned value) *)
(* so that what a method returns can be stated about a state.              *)
(***************************************************************************)
EXTENDS Integers, Sequences, FiniteSets, TLC

VARIABLES users, profiles, messages, last

vars == <<users, profiles, messages, last>>

(* ---------------------------------------------------------------- bounds *)

\* Spec: users + profiles + interests + messages held at once.
MaxSize == 4
\* SpecMsg: users + messages held at once.
MaxMsgSize == 4
\* SpecMatch: profiles + interests held at once.
MaxMatchSize == 6

(* ---------------------------------------------------------------- inputs *)

Names == {"Alice", "Bob"}
Emails == {"alice@example.com"}
Passwords == {"password123"}
Ages == {28}
Bios == {"I love hiking and reading."}
Interests == {"travel", "food"}
Contents == {"Hi Bob"}
Timestamps == {"t0"}
MinScores == {0, 1, 2}

\* new User(id, name, email, password)
User(id, name, email, password) ==
  [id |-> id, name |-> name, email |-> email, password |-> password]

\* Users built with `new User(...)` by a caller, never passed through
\* createUser: one whose id collides with a stored id, one whose id does not.
ExternalUsers ==
  { User(i, "Eve", "eve@example.com", "pw") : i \in {1, 7} }

\* new Profile(user, age, bio): interests starts empty.
Profile(user, age, bio) ==
  [user |-> user, age |-> age, bio |-> bio, interests |-> <<>>]

\* new Message(sender, recipient, content, timestamp = new Date())
Message(sender, recipient, content, timestamp) ==
  [sender |-> sender, recipient |-> recipient, content |-> content,
   timestamp |-> timestamp]

\* JavaScript's null (sendMessage) and undefined (Array.prototype.find).
Null == [null |-> TRUE]
Undefined == [undefined |-> TRUE]

(* ------------------------------------------------------- array helpers *)

Range(s) == { s[i] : i \in 1..Len(s) }

\* Array.prototype.includes with ===
includes(s, x) == \E i \in 1..Len(s) : s[i] = x

\* Mutant of findById: the predicate is truthy for any non-zero id, so the
\* first element is returned whatever its id.
findByIdFirst(s, id, i) ==
  IF i > Len(s) \/ id = 0 THEN Undefined ELSE s[i]

\* Array.prototype.find(u => u.id === id): the first hit, else undefined.
RECURSIVE findById(_, _, _)
findById(s, id, i) ==
  IF i > Len(s) THEN Undefined
  ELSE IF s[i].id = id THEN s[i]
  ELSE findById(s, id, i + 1)

(* ------------------------------------------------------------- Profile *)

\* Profile.match: this.interests.filter(i => other.interests.includes(i)).length
RECURSIVE commonInterests(_, _, _)
commonInterests(mine, theirs, i) ==
  IF i > Len(mine) THEN <<>>
  ELSE IF includes(theirs, mine[i])
       THEN <<mine[i]>> \o commonInterests(mine, theirs, i + 1)
       ELSE commonInterests(mine, theirs, i + 1)

profileMatch(this, otherProfile) ==
  Len(commonInterests(this.interests, otherProfile.interests, 1))

(* ---------------------------------------------------------- MatchMaker *)

\* Mutant of MatchMakerFindMatches: the filter on user id is missing.
RECURSIVE MatchMakerFindMatchesNoSelfFilter(_, _, _, _)
MatchMakerFindMatchesNoSelfFilter(profile, potentialMatches, minScore, i) ==
  IF i > Len(potentialMatches) THEN <<>>
  ELSE IF profileMatch(profile, potentialMatches[i]) >= minScore
       THEN <<i>> \o MatchMakerFindMatchesNoSelfFilter(profile, potentialMatches, minScore, i + 1)
       ELSE MatchMakerFindMatchesNoSelfFilter(profile, potentialMatches, minScore, i + 1)

\* Mutant of MatchMakerFindMatches: score > minScore instead of >=.
RECURSIVE MatchMakerFindMatchesStrict(_, _, _, _)
MatchMakerFindMatchesStrict(profile, potentialMatches, minScore, i) ==
  IF i > Len(potentialMatches) THEN <<>>
  ELSE IF /\ potentialMatches[i].user.id # profile.user.id
          /\ profileMatch(profile, potentialMatches[i]) > minScore
       THEN <<i>> \o MatchMakerFindMatchesStrict(profile, potentialMatches, minScore, i + 1)
       ELSE MatchMakerFindMatchesStrict(profile, potentialMatches, minScore, i + 1)

\* MatchMaker.findMatches over indices into potentialMatches (the returned
\* array holds the very Profile objects of potentialMatches, in scan order).
RECURSIVE MatchMakerFindMatches(_, _, _, _)
MatchMakerFindMatches(profile, potentialMatches, minScore, i) ==
  IF i > Len(potentialMatches) THEN <<>>
  ELSE IF /\ potentialMatches[i].user.id # profile.user.id
          /\ profileMatch(profile, potentialMatches[i]) >= minScore
       THEN <<i>> \o MatchMakerFindMatches(profile, potentialMatches, minScore, i + 1)
       ELSE MatchMakerFindMatches(profile, potentialMatches, minScore, i + 1)

(* ------------------------------------------------------- DatingService *)

\* Mutant of messagesOf: only the recipient is compared.
RECURSIVE messagesOfRecipientOnly(_, _, _)
messagesOfRecipientOnly(ms, userId, i) ==
  IF i > Len(ms) THEN <<>>
  ELSE IF ms[i].recipient.id = userId
       THEN <<ms[i]>> \o messagesOfRecipientOnly(ms, userId, i + 1)
       ELSE messagesOfRecipientOnly(ms, userId, i + 1)

\* DatingService.getMessages: filter by recipient.id or sender.id.
RECURSIVE messagesOf(_, _, _)
messagesOf(ms, userId, i) ==
  IF i > Len(ms) THEN <<>>
  ELSE IF ms[i].recipient.id = userId \/ ms[i].sender.id = userId
       THEN <<ms[i]>> \o messagesOf(ms, userId, i + 1)
       ELSE messagesOf(ms, userId, i + 1)

Init ==
  /\ users = <<>>
  /\ profiles = <<>>
  /\ messages = <<>>
  /\ last = [op |-> "new", args |-> <<>>, ret |-> <<>>]

\* Mutant of createUser: the id is the length before the push, without + 1.
createUserZeroBased(name, email, password) ==
  LET id == Len(users)
      user == User(id, name, email, password)
  IN /\ users' = Append(users, user)
     /\ last' = [op |-> "createUser",
                 args |-> [name |-> name, email |-> email, password |-> password],
                 ret |-> user]
     /\ UNCHANGED <<profiles, messages>>

createUser(name, email, password) ==
  LET id == Len(users) + 1
      user == User(id, name, email, password)
  IN /\ users' = Append(users, user)
     /\ last' = [op |-> "createUser",
                 args |-> [name |-> name, email |-> email, password |-> password],
                 ret |-> user]
     /\ UNCHANGED <<profiles, messages>>

createProfile(user, age, bio) ==
  LET profile == Profile(user, age, bio)
  IN /\ profiles' = Append(profiles, profile)
     /\ last' = [op |-> "createProfile",
                 args |-> [user |-> user, age |-> age, bio |-> bio],
                 ret |-> Len(profiles) + 1]
     /\ UNCHANGED <<users, messages>>

\* Profile.addInterest on the stored profile object at index p.
addInterest(p, interest) ==
  /\ profiles' = [profiles EXCEPT ![p].interests = Append(@, interest)]
  /\ last' = [op |-> "addInterest",
              args |-> [profile |-> p, interest |-> interest],
              ret |-> <<>>]
  /\ UNCHANGED <<users, messages>>

\* Profile.match called on stored profile a with stored profile b.
match(a, b) ==
  /\ last' = [op |-> "match",
              args |-> [this |-> a, otherProfile |-> b],
              ret |-> profileMatch(profiles[a], profiles[b])]
  /\ UNCHANGED <<users, profiles, messages>>

\* Mutant of sendMessage: unshift instead of push.
sendMessageUnshift(sender, recipientId, content, timestamp) ==
  LET recipient == findById(users, recipientId, 1)
      args == [sender |-> sender, recipientId |-> recipientId, content |-> content]
  IN IF recipient # Undefined
     THEN LET message == Message(sender, recipient, content, timestamp)
          IN /\ messages' = <<message>> \o messages
             /\ last' = [op |-> "sendMessage", args |-> args, ret |-> message]
             /\ UNCHANGED <<users, profiles>>
     ELSE /\ last' = [op |-> "sendMessage", args |-> args, ret |-> Null]
          /\ UNCHANGED <<users, profiles, messages>>

\* Mutant of sendMessage: sender and recipient swapped in the constructor call.
sendMessageSwapped(sender, recipientId, content, timestamp) ==
  LET recipient == findById(users, recipientId, 1)
      args == [sender |-> sender, recipientId |-> recipientId, content |-> content]
  IN IF recipient # Undefined
     THEN LET message == Message(recipient, sender, content, timestamp)
          IN /\ messages' = Append(messages, message)
             /\ last' = [op |-> "sendMessage", args |-> args, ret |-> message]
             /\ UNCHANGED <<users, profiles>>
     ELSE /\ last' = [op |-> "sendMessage", args |-> args, ret |-> Null]
          /\ UNCHANGED <<users, profiles, messages>>

sendMessage(sender, recipientId, content, timestamp) ==
  LET recipient == findById(users, recipientId, 1)
      args == [sender |-> sender, recipientId |-> recipientId, content |-> content]
  IN IF recipient # Undefined
     THEN LET message == Message(sender, recipient, content, timestamp)
          IN /\ messages' = Append(messages, message)
             /\ last' = [op |-> "sendMessage", args |-> args, ret |-> message]
             /\ UNCHANGED <<users, profiles>>
     ELSE /\ last' = [op |-> "sendMessage", args |-> args, ret |-> Null]
          /\ UNCHANGED <<users, profiles, messages>>

getMessages(userId) ==
  /\ last' = [op |-> "getMessages",
              args |-> [userId |-> userId],
              ret |-> messagesOf(messages, userId, 1)]
  /\ UNCHANGED <<users, profiles, messages>>

\* Mutant of findMatches: the stored array is filtered in place.
findMatchesInPlace(p, minScore) ==
  LET ret == MatchMakerFindMatches(profiles[p], profiles, minScore, 1)
  IN /\ last' = [op |-> "findMatches",
                 args |-> [profile |-> p, minScore |-> minScore],
                 ret |-> ret]
     /\ profiles' = [k \in 1..Len(ret) |-> profiles[ret[k]]]
     /\ UNCHANGED <<users, messages>>

\* DatingService.findMatches(profile, minScore) with the stored profile p.
findMatches(p, minScore) ==
  /\ last' = [op |-> "findMatches",
              args |-> [profile |-> p, minScore |-> minScore],
              ret |-> MatchMakerFindMatches(profiles[p], profiles, minScore, 1)]
  /\ UNCHANGED <<users, profiles, messages>>

(* -------------------------------------------------------- environments *)

RECURSIVE SumInterests(_, _)
SumInterests(ps, i) ==
  IF i > Len(ps) THEN 0 ELSE Len(ps[i].interests) + SumInterests(ps, i + 1)

Size == Len(users) + Len(profiles) + SumInterests(profiles, 1) + Len(messages)

\* Any User object a caller can hold.
AnyUser == Range(users) \cup ExternalUsers
\* The numbers a caller passes for a user id: every stored id, 0 and
\* Len(users) + 1, which no stored user has, and the ids of the external users.
AnyId == 0..(Len(users) + 1) \cup { u.id : u \in ExternalUsers }

CallCreateUser ==
  \E name \in Names, email \in Emails, password \in Passwords :
    createUser(name, email, password)

CallCreateProfile ==
  \E user \in AnyUser, age \in Ages, bio \in Bios : createProfile(user, age, bio)

CallAddInterest ==
  \E p \in 1..Len(profiles), interest \in Interests : addInterest(p, interest)

CallMatch ==
  \E a \in 1..Len(profiles), b \in 1..Len(profiles) : match(a, b)

\* A send that stores a message counts against the bound; a refused one does not.
CallSendMessage(bound) ==
  \E sender \in AnyUser, recipientId \in AnyId, content \in Contents,
     timestamp \in Timestamps :
    /\ (findById(users, recipientId, 1) # Undefined) => Size < bound
    /\ sendMessage(sender, recipientId, content, timestamp)

CallGetMessages == \E userId \in AnyId : getMessages(userId)

CallFindMatches ==
  \E p \in 1..Len(profiles), minScore \in MinScores : findMatches(p, minScore)

\* The whole service.
Next ==
  \/ Size < MaxSize /\ CallCreateUser
  \/ Size < MaxSize /\ CallCreateProfile
  \/ Size < MaxSize /\ CallAddInterest
  \/ CallMatch
  \/ CallSendMessage(MaxSize)
  \/ CallGetMessages
  \/ CallFindMatches

Spec == Init /\ [][Next]_vars

\* Users and messaging only, to a larger bound.
NextMsg ==
  \/ Size < MaxMsgSize /\ CallCreateUser
  \/ CallSendMessage(MaxMsgSize)
  \/ CallGetMessages

SpecMsg == Init /\ [][NextMsg]_vars

\* Profiles and matching only, to a larger bound.
NextMatch ==
  \/ Size < MaxMatchSize /\ CallCreateProfile
  \/ Size < MaxMatchSize /\ CallAddInterest
  \/ CallMatch
  \/ CallFindMatches

SpecMatch == Init /\ [][NextMatch]_vars

(* ---------------------------------------------------------------- claims *)

StoredIds == { users[i].id : i \in 1..Len(users) }

\* The k-th smallest element of a finite set of numbers.
Nth(S, k) == CHOOSE i \in S : Cardinality({ j \in S : j < i }) = k - 1

InterestSet(p) == Range(p.interests)

\* C1: A.match(B) equals B.match(A) for all profiles A and B, duplicates in
\* the interest lists included.
C1_MatchSymmetric ==
  last.op = "match" =>
    last.ret = profileMatch(profiles[last.args.otherProfile], profiles[last.args.this])

\* C7: A.match(B) is the number of distinct interest strings present in both
\* lists, the size of the intersection of the two interest sets.
C7_MatchIsIntersectionSize ==
  last.op = "match" =>
    last.ret = Cardinality(InterestSet(profiles[last.args.this])
                             \cap InterestSet(profiles[last.args.otherProfile]))

\* C2: the k-th stored user has id k (so ids are pairwise distinct), and
\* createUser returns the user it stored last, whatever name, email and
\* password it was given.
C2_UserIdIsInsertionPosition ==
  /\ \A k \in 1..Len(users) : users[k].id = k
  /\ \A j, k \in 1..Len(users) : users[j].id = users[k].id => j = k
  /\ last.op = "createUser" =>
       /\ last.ret = users[Len(users)]
       /\ last.ret.id = Len(users)
       /\ last.ret.name = last.args.name
       /\ last.ret.email = last.args.email

C2_ThreeUsersCreated ==
  /\ Len(users) = 3
  /\ last.op = "createUser"
  /\ users[1].name # users[2].name
  /\ users[2].name = users[3].name

\* C3: a sendMessage whose recipientId is the id of no stored user returns
\* null and leaves the stored messages as they were.
C3_UnknownRecipientIsNoOp ==
  [][ (last'.op = "sendMessage" /\ last'.args.recipientId \notin StoredIds)
        => (last'.ret = Null /\ messages' = messages) ]_vars

C3_SendRefused ==
  /\ last.op = "sendMessage"
  /\ last.ret = Null
  /\ last.args.recipientId \notin StoredIds
  /\ Len(users) >= 1
  /\ Len(messages) >= 1

\* C4: getMessages(u) returns exactly the stored messages whose sender id or
\* recipient id is u, each once, in the order sendMessage stored them.
C4_GetMessagesExactInOrder ==
  last.op = "getMessages" =>
    LET u == last.args.userId
        hits == { i \in 1..Len(messages) :
                    messages[i].sender.id = u \/ messages[i].recipient.id = u }
    IN /\ Len(last.ret) = Cardinality(hits)
       /\ \A k \in 1..Len(last.ret) : last.ret[k] = messages[Nth(hits, k)]

C4_GetMessagesSkipsOne ==
  /\ last.op = "getMessages"
  /\ Len(last.ret) >= 2
  /\ Len(last.ret) < Len(messages)
  /\ \E k \in 1..Len(last.ret) : last.ret[k].recipient.id # last.args.userId

\* C5: findMatches never returns a profile whose user id is that of the
\* profile it was called for, even when that profile is a candidate whose
\* score against itself meets the threshold.
C5_NeverMatchesItself ==
  last.op = "findMatches" =>
    \A k \in 1..Len(last.ret) :
      profiles[last.ret[k]].user.id # profiles[last.args.profile].user.id

C5_SelfWouldQualify ==
  /\ last.op = "findMatches"
  /\ last.args.minScore >= 1
  /\ profileMatch(profiles[last.args.profile], profiles[last.args.profile])
       >= last.args.minScore
  /\ last.ret # <<>>
  /\ \E i \in 1..Len(profiles) :
       /\ i # last.args.profile
       /\ profiles[i].user.id = profiles[last.args.profile].user.id

\* C6: findMatches(P, minScore) returns exactly the stored profiles whose
\* user id differs from P's and whose score against P is at least minScore,
\* in profile-creation order, none twice and none dropped.
C6_FindMatchesExactInOrder ==
  last.op = "findMatches" =>
    LET P == profiles[last.args.profile]
        keep == { i \in 1..Len(profiles) :
                    /\ profiles[i].user.id # P.user.id
                    /\ profileMatch(P, profiles[i]) >= last.args.minScore }
    IN /\ Len(last.ret) = Cardinality(keep)
       /\ \A k \in 1..Len(last.ret) : last.ret[k] = Nth(keep, k)

C6_LowerScoreFirst ==
  /\ last.op = "findMatches"
  /\ Len(last.ret) = 2
  /\ profileMatch(profiles[last.args.profile], profiles[last.ret[1]])
       < profileMatch(profiles[last.args.profile], profiles[last.ret[2]])

\* C8: a sendMessage whose recipientId is the id of a stored user returns a
\* message with the given sender and content and that stored user as its
\* recipient, appends it as the last stored message, and leaves the stored
\* users and profiles as they were.
C8_SendAppendsMessage ==
  [][ (last'.op = "sendMessage" /\ last'.args.recipientId \in StoredIds)
        => /\ last'.ret # Null
           /\ last'.ret.sender = last'.args.sender
           /\ last'.ret.content = last'.args.content
           /\ \E i \in 1..Len(users) :
                /\ users[i].id = last'.args.recipientId
                /\ last'.ret.recipient = users[i]
           /\ messages' = Append(messages, last'.ret)
           /\ users' = users
           /\ profiles' = profiles ]_vars

C8_SendStored ==
  /\ last.op = "sendMessage"
  /\ last.ret # Null
  /\ Len(messages) >= 2
  /\ Len(profiles) >= 1
  /\ messages[1] # messages[2]

\* C9: every stored message's recipient is a user of the service's user
\* list, its id in 1..Len(users); the sender is not validated, so a message
\* whose sender never went through createUser can be stored.
C9_RecipientIsStoredUser ==
  \A k \in 1..Len(messages) :
    /\ messages[k].recipient.id \in 1..Len(users)
    /\ users[messages[k].recipient.id] = messages[k].recipient

C9_UnknownSenderStored ==
  \E k \in 1..Len(messages) :
    /\ messages[k].sender \notin Range(users)
    /\ messages[k].sender.id \notin StoredIds

\* C10: getMessages and findMatches leave users, profiles (interest lists
\* included) and messages as they were; createProfile appends one profile
\* to the profile list and changes nothing else, whether or not its user is
\* stored in the service.
C10_QueriesReadOnly ==
  [][ /\ last'.op \in {"getMessages", "findMatches"}
        => (users' = users /\ profiles' = profiles /\ messages' = messages)
      /\ last'.op = "createProfile"
        => /\ users' = users
           /\ messages' = messages
           /\ Len(profiles') = Len(profiles) + 1
           /\ SubSeq(profiles', 1, Len(profiles)) = profiles
           /\ profiles'[Len(profiles')].user = last'.args.user ]_vars

C10_QueryOverForeignProfile ==
  /\ last.op = "findMatches"
  /\ Len(users) >= 1
  /\ \E i \in 1..Len(profiles) :
       /\ profiles[i].user \notin Range(users)
       /\ profiles[i].interests # <<>>

====
